---- MODULE Spec2Model ----
(***************************************************************************)
(* G2 review monitor (check_reviews.py).  One invocation of main() is a    *)
(* run: validate the configuration, apply the rate-limit guard, collect    *)
(* the current reviews, filter them against the persisted state, notify    *)
(* the new ones oldest first, and rewrite the state file.                  *)
(*                                                                         *)
(* Time is counted in minutes.  A review date is a JSON string; it is      *)
(* modelled by its format and the calendar day it names.  A review_id is a *)
(* JSON value; numbers are the positive integers and a string identifier   *)
(* is encoded as a negative integer.  A request to the provider or to the  *)
(* webhook is modelled by the reply it gets.                               *)
(***************************************************************************)
EXTENDS Integers, Sequences, FiniteSets, TLC

\* ---------------------------------------------------------------- bounds
\* Number of invocations of main() that are explored.
MaxRuns == 2
\* Longest list the download phase returns.
MaxFetch == 3
\* The [-100:] slice of save_last_review_id, scaled down so that the
\* truncation is reached with MaxFetch records.
SeenCap == 2
\* The status queries that fit in the wait budget of the poll loop
\* (max_wait / check_interval, 1500 / 15 in the program), scaled down.
MaxPolls == 6

\* ------------------------------------------------------ program constants
\* is_review_recent(review, days=60)
RecentDays == 60
\* timedelta(days=365)
FutureDays == 365
\* hours_since < 0.5, in minutes
MinInterval == 30
\* days_since >= 7
HealthDays == 7
\* max_retries=3 of the trigger and of the download
max_retries == 3
\* max_consecutive_failures = 3
max_consecutive_failures == 3
\* check_interval=15, in seconds
check_interval == 15
\* max_wait, in seconds
max_wait == MaxPolls * check_interval

MinutesPerDay == 24 * 60
\* The time of the first invocation (noon of day 1000) and its day.
T0 == 1000 * MinutesPerDay + 12 * 60
Day0 == T0 \div MinutesPerDay

\* Time that passes between the end of one invocation and the next one.
Gaps == {10, MinInterval, HealthDays * MinutesPerDay}

\* ----------------------------------------------------------------- values
SecretNames == {"SLACK_WEBHOOK_URL", "BRIGHT_DATA_API_KEY", "BRIGHT_DATA_ENDPOINT"}
\* The environments an invocation may be started with.
Environments == {SecretNames} \cup {SecretNames \ {s} : s \in SecretNames}

AllKeys == {"review_id", "date", "title", "author", "stars", "review_url"}
required_fields == AllKeys

\* isinstance(review_id, (int, float))
IsNumber(v) == v > 0

\* A date value: "ymd" is the string YYYY-MM-DD, "ts" is an ISO timestamp
\* string YYYY-MM-DDT00:00:00.000Z, "null" is JSON null (None).
Date(fmt, day) == [fmt |-> fmt, day |-> day]
NoDate == Date("null", 0)

\* A dict of the downloaded list; keys is the set of keys it carries.  The
\* fields other than review_id and date hold values of the expected type.
Review(id, date, keys) == [dict |-> TRUE, keys |-> keys, review_id |-> id, date |-> date]
\* An element of the downloaded list that is no dict (a string, a number).
NotADict == [dict |-> FALSE, keys |-> {}, review_id |-> 0, date |-> NoDate]

\* The provider's reviews: what a download may return, in any order and
\* with repetitions.
\* Well-formed reviews, all recent; identifiers do not follow the dates.
CatRecent ==
    { Review(1, Date("ymd", Day0 - 5), AllKeys),
      Review(2, Date("ymd", Day0 - 10), AllKeys),
      Review(3, Date("ymd", Day0 - 5), AllKeys),
      Review(4, Date("ymd", Day0 - 2), AllKeys) }
\* Well-formed reviews around the two ends of the recency window, and an
\* old review whose date is an ISO timestamp.
CatDates ==
    { Review(3, Date("ymd", Day0 - RecentDays + 1), AllKeys),
      Review(4, Date("ts", Day0 - 100), AllKeys),
      Review(5, Date("ymd", Day0 + FutureDays + 1), AllKeys) }
\* Elements that are no review records next to a well-formed one.
CatShapes ==
    { NotADict,
      Review(0, Date("ymd", Day0 - 1), AllKeys \ {"review_id"}),
      Review(2, Date("ymd", Day0 - 3), AllKeys) }
\* Records without a field the filter or the notification needs, next to a
\* well-formed one.
CatFields ==
    { Review(1, NoDate, AllKeys \ {"date"}),
      Review(3, Date("ymd", Day0 - 2), AllKeys \ {"title"}),
      Review(2, Date("ymd", Day0 - 3), AllKeys) }
\* Records with a field of the wrong type next to a well-formed one: a
\* string review_id and a null date.
CatTypes ==
    { Review(-1, Date("ymd", Day0 - 1), AllKeys),
      Review(4, NoDate, AllKeys),
      Review(2, Date("ymd", Day0 - 3), AllKeys) }
Catalogues == {CatRecent, CatDates, CatShapes, CatFields, CatTypes}

\* Non-empty lists of at most n elements of S.
SeqsUpTo(S, n) == UNION { [1..k -> S] : k \in 1..n }

\* The state file; exists = FALSE is the absent file, complete = FALSE is a
\* file whose text is not a whole JSON document.
NoFile ==
    [exists |-> FALSE, complete |-> FALSE, last_review_id |-> 0,
     seen_review_ids |-> {}, last_checked |-> 0, last_notification_sent |-> 0]
\* The file after open(STATE_FILE, 'w') and before json.dump has written all
\* of the document: it is empty or holds the beginning of the new text.
TruncatedFile ==
    [exists |-> TRUE, complete |-> FALSE, last_review_id |-> 0,
     seen_review_ids |-> {}, last_checked |-> 0, last_notification_sent |-> 0]

\* min() in the place of max().
SetMin(S) == CHOOSE x \in S : \A y \in S : x <= y

\* max() of a non-empty set of integers.
SetMax(S) == CHOOSE x \in S : \A y \in S : y <= x

VARIABLES
    now,            \* datetime.utcnow(), in minutes
    catalogue,      \* the reviews the provider holds
    file,           \* last_review.json
    env,            \* the secrets present in the environment of the run
    pc,             \* position of main()
    reviews_data,   \* result of scrape_g2_reviews()
    last_stored_id, \* main's locals
    seen_ids,
    new_reviews,
    idx,
    successful_notifications,
    failed_reviews,
    newly_seen_ids,
    attempt,        \* attempt of the retry loop of the trigger or the download
    elapsed,        \* check_progress_with_retry's locals
    consecutive_failures,
    stack,          \* invocations of main() waiting while a later one runs
    last_reply,     \* history: the reply to the last request to the provider
    transient_errors, \* history: status queries of the poll loop that raised a
                    \* RequestException, counted up to max_consecutive_failures
    fetched,        \* history: the run has sent a trigger request
    outbox,         \* history: requests made to the Slack webhook in this run
    prev,           \* history: the state file when the run started
    wrote,          \* history: the run has written the state file
    outcome,        \* history: how the run ended
    ingested,       \* history: identifiers of the fetches that a commit has saved
    runs            \* history: invocations so far

vars ==
    << now, catalogue, file, env, pc, reviews_data, last_stored_id, seen_ids,
       new_reviews, idx, successful_notifications, failed_reviews,
       newly_seen_ids, attempt, elapsed, consecutive_failures, stack,
       last_reply, transient_errors, fetched, outbox, prev, wrote, outcome,
       ingested, runs >>

\* main's locals.
locals ==
    << reviews_data, last_stored_id, seen_ids, new_reviews, idx,
       successful_notifications, failed_reviews, newly_seen_ids >>

\* The locals of the three phases of scrape_g2_reviews.
scrape_locals == << attempt, elapsed, consecutive_failures >>

\* What the steps of main after the collection leave alone.
collected == << scrape_locals, last_reply, transient_errors, fetched, stack >>

\* What scrape_g2_reviews() returned: None, a JSON object, or a list.
NoData == [kind |-> "none", list |-> << >>]
JsonList(l) == [kind |-> "list", list |-> l]

Init ==
    /\ now = T0
    /\ catalogue \in Catalogues
    /\ file = NoFile
    /\ env = SecretNames
    /\ pc = "done"
    /\ reviews_data = NoData
    /\ last_stored_id = 0
    /\ seen_ids = {}
    /\ new_reviews = << >>
    /\ idx = 0
    /\ successful_notifications = 0
    /\ failed_reviews = << >>
    /\ newly_seen_ids = << >>
    /\ attempt = 0
    /\ elapsed = 0
    /\ consecutive_failures = 0
    /\ stack = << >>
    /\ last_reply = "none"
    /\ transient_errors = 0
    /\ fetched = FALSE
    /\ outbox = << >>
    /\ prev = NoFile
    /\ wrote = FALSE
    /\ outcome = "none"
    /\ ingested = {}
    /\ runs = 0

\* ------------------------------------------------------------ pure helpers
\* datetime.strptime(review['date'], '%Y-%m-%d'): only YYYY-MM-DD parses; the
\* result is midnight of that day.  Anything else raises.
Parses(date) == date.fmt = "ymd"
strptime(date) == date.day * MinutesPerDay

\* The check without its lower end: no review is too old.
RecentWithoutCutoff(review) ==
    IF Parses(review.date)
    THEN strptime(review.date) <= now + FutureDays * MinutesPerDay
    ELSE TRUE

\* The check without its upper end: no date is too far ahead.
RecentWithoutFutureCutoff(review) ==
    IF Parses(review.date)
    THEN now - RecentDays * MinutesPerDay <= strptime(review.date)
    ELSE TRUE

\* is_review_recent(review, days=60): a date that does not parse is taken
\* as recent (the except branch returns True).
is_review_recent(review) ==
    IF Parses(review.date)
    THEN LET review_date == strptime(review.date)
             cutoff_date == now - RecentDays * MinutesPerDay
             future_cutoff == now + FutureDays * MinutesPerDay
         IN  cutoff_date <= review_date /\ review_date <= future_cutoff
    ELSE TRUE

\* IsNew without the look-up in the seen list.
IsNewIgnoringSeen(review, seen) ==
    /\ review.dict
    /\ "review_id" \in review.keys
    /\ "date" \in review.keys
    /\ IsNumber(review.review_id)
    /\ is_review_recent(review)

\* The body of the filter loop of main for one element: TRUE when the
\* element is appended to new_reviews.
IsNew(review, seen) ==
    /\ review.dict
    /\ "review_id" \in review.keys
    /\ "date" \in review.keys
    /\ IsNumber(review.review_id)
    /\ review.review_id \notin seen
    /\ is_review_recent(review)

\* Python's < on two date values.  Two strings compare as texts: the digits
\* of YYYY-MM-DD order by day and a timestamp follows the date it starts
\* with.  None compares with nothing but None.
Comparable(d1, d2) == (d1.fmt = "null") <=> (d2.fmt = "null")
DateLess(d1, d2) ==
    /\ d1.fmt # "null"
    /\ d2.fmt # "null"
    /\ \/ d1.day < d2.day
       \/ d1.day = d2.day /\ d1.fmt = "ymd" /\ d2.fmt = "ts"

\* The sort key (x.get('date', ''), x['review_id']) compared as tuples.
KeyLess(a, b) ==
    \/ DateLess(a.date, b.date)
    \/ a.date = b.date /\ a.review_id < b.review_id

\* list.sort is stable: an element goes after the elements that are not
\* greater than it.
RECURSIVE Insert(_, _)
Insert(r, s) ==
    IF s = << >> THEN << r >>
    ELSE IF KeyLess(r, Head(s)) THEN << r >> \o s
    ELSE << Head(s) >> \o Insert(r, Tail(s))

RECURSIVE SortFrom(_, _)
SortFrom(s, acc) ==
    IF s = << >> THEN acc ELSE SortFrom(Tail(s), Insert(Head(s), acc))

\* The list left in the order of the download.
SortOmitted(s) == s

SortReviews(s) == SortFrom(s, << >>)

\* The sort raises TypeError when it compares None with a string.
SortRaises(s) ==
    \E i, j \in 1..Len(s) : ~Comparable(s[i].date, s[j].date)

\* [r['review_id'] for r in reviews_data if isinstance(r, dict) and 'review_id' in r]
ValidIds(l) ==
    { l[i].review_id : i \in { j \in 1..Len(l) : l[j].dict /\ "review_id" \in l[j].keys } }

\* max(valid_ids) raises TypeError on a list that mixes numbers and strings.
MaxRaises(ids) == (\E x \in ids : IsNumber(x)) /\ (\E x \in ids : ~IsNumber(x))

\* The slice left out: every identifier is kept.
TruncateOmitted(ids) == {ids}

\* A slice one element too short.
TruncateOneShort(ids) ==
    IF Cardinality(ids) < SeenCap THEN {ids}
    ELSE { kept \in SUBSET ids : Cardinality(kept) = SeenCap - 1 }

\* list(set(seen_ids))[-100:]: the order of a set is not defined, so the
\* slice keeps any SeenCap of the identifiers.
Truncate(ids) ==
    IF Cardinality(ids) <= SeenCap THEN {ids}
    ELSE { kept \in SUBSET ids : Cardinality(kept) = SeenCap }

\* save_last_review_id(review_id, seen_ids): the file after the write.
SavedFile(review_id, kept) ==
    [exists |-> TRUE, complete |-> TRUE, last_review_id |-> review_id,
     seen_review_ids |-> kept, last_checked |-> now, last_notification_sent |-> now]

save_last_review_id(review_id, ids) ==
    \E kept \in Truncate(ids) :
        /\ file' = SavedFile(review_id, kept)
        /\ wrote' = TRUE

\* A call of one of the three notifier functions.
Msg(type, review, result, ids) ==
    [type |-> type, review |-> review, result |-> result, ids |-> ids]

\* ---------------------------------------------------------------- actions
\* main() starts in some environment, gap minutes after the last event.
StartRun(gap) ==
    /\ now' = now + gap
    /\ env' \in Environments
    /\ runs' = runs + 1
    /\ pc' = "validate"
    /\ reviews_data' = NoData
    /\ last_stored_id' = 0
    /\ seen_ids' = {}
    /\ new_reviews' = << >>
    /\ idx' = 0
    /\ successful_notifications' = 0
    /\ failed_reviews' = << >>
    /\ newly_seen_ids' = << >>
    /\ attempt' = 0
    /\ elapsed' = 0
    /\ consecutive_failures' = 0
    /\ last_reply' = "none"
    /\ transient_errors' = 0
    /\ fetched' = FALSE
    /\ outbox' = << >>
    /\ prev' = file
    /\ wrote' = FALSE
    /\ outcome' = "running"
    /\ UNCHANGED << catalogue, file, ingested >>

\* The scheduler starts main(): the first time at T0, then some time after
\* the previous invocation ended.
Invoke ==
    /\ pc = "done"
    /\ stack = << >>
    /\ runs < MaxRuns
    /\ \E gap \in (IF runs = 0 THEN {0} ELSE Gaps) : StartRun(gap)
    /\ UNCHANGED stack

\* A validation that forgets the webhook URL.
ValidateProviderSecrets ==
    {"BRIGHT_DATA_API_KEY", "BRIGHT_DATA_ENDPOINT"} \subseteq env

\* validate_secrets()
validate_secrets == env = SecretNames

\* main, lines 384-386.
ValidateConfig ==
    /\ pc = "validate"
    /\ IF validate_secrets
       THEN pc' = "rate_limit" /\ UNCHANGED outcome
       ELSE pc' = "done" /\ outcome' = "config_error"
    /\ UNCHANGED << now, catalogue, file, env, locals, collected, outbox, prev, wrote,
                    ingested, runs >>

\* The guard with <= in the place of <.
ShouldRunAfterInterval ==
    ~(file.exists /\ file.complete /\ now - file.last_checked <= MinInterval)

\* should_run_check(): False only when the file records a last_checked less
\* than half an hour old.  A file that json.load rejects raises inside the
\* try, and the function returns True.
should_run_check ==
    ~(file.exists /\ file.complete /\ now - file.last_checked < MinInterval)

\* main, lines 388-390, up to the call of scrape_g2_reviews.
CheckRateLimit ==
    /\ pc = "rate_limit"
    /\ IF should_run_check
       THEN pc' = "trigger" /\ attempt' = 1 /\ UNCHANGED outcome
       ELSE pc' = "done" /\ outcome' = "skipped" /\ UNCHANGED attempt
    /\ UNCHANGED << now, catalogue, file, env, locals, elapsed, consecutive_failures,
                    stack, last_reply, transient_errors, fetched, outbox, prev, wrote,
                    ingested, runs >>

\* send_error_notification(error_msg): one request to the webhook.
ErrorMsg(ids) == Msg("error", NotADict, "unobserved", ids)

\* The collection without its error notification.
ScrapeFailedSilently(why) ==
    /\ pc' = "done"
    /\ outcome' = why
    /\ UNCHANGED outbox

\* scrape_g2_reviews() returned None: main, lines 395-399.
ScrapeFailed(why) ==
    /\ outbox' = Append(outbox, ErrorMsg(<< >>))
    /\ pc' = "done"
    /\ outcome' = why

\* How scrape_g2_reviews() comes to return None.
ScrapeFailures ==
    {"trigger_failed", "no_snapshot", "job_failed", "poll_timeout", "poll_errors",
     "poll_raised", "download_failed", "empty_payload"}

\* The replies to the trigger request: a job result with a snapshot id, a
\* result without one (or an empty one), a timeout, another
\* RequestException, and an exception of another class.
TriggerReplies == {"snapshot", "no_snapshot", "timeout", "error", "unexpected"}

\* A trigger that gives up on the first timeout or network error.
TriggerWithoutRetry(reply) ==
    CASE reply = "snapshot" ->
            /\ pc' = "poll"
            /\ UNCHANGED << attempt, outbox, outcome >>
      [] reply = "no_snapshot" ->
            ScrapeFailed("no_snapshot") /\ UNCHANGED attempt
      [] OTHER ->
            ScrapeFailed("trigger_failed") /\ UNCHANGED attempt

\* One pass of the loop of trigger_collection_with_retry, and lines 246-258
\* of scrape_g2_reviews when it returns.
TriggerAttempt(reply) ==
    CASE reply = "snapshot" ->
            /\ pc' = "poll"
            /\ UNCHANGED << attempt, outbox, outcome >>
      [] reply = "no_snapshot" ->
            ScrapeFailed("no_snapshot") /\ UNCHANGED attempt
      [] reply \in {"timeout", "error"} ->
            IF attempt < max_retries
            THEN /\ attempt' = attempt + 1
                 /\ UNCHANGED << pc, outbox, outcome >>
            ELSE ScrapeFailed("trigger_failed") /\ UNCHANGED attempt
      [] OTHER ->
            ScrapeFailed("trigger_failed") /\ UNCHANGED attempt

Trigger ==
    /\ pc = "trigger"
    /\ \E reply \in TriggerReplies :
        /\ last_reply' = reply
        /\ TriggerAttempt(reply)
    /\ fetched' = TRUE
    /\ UNCHANGED << now, catalogue, file, env, locals, elapsed, consecutive_failures,
                    stack, transient_errors, prev, wrote, ingested, runs >>

\* The replies to a status query: the three kinds of status the loop tells
\* apart ("running" stands for running, starting and any other status that
\* is neither ready nor failed), a RequestException, and an exception of
\* another class.
PollReplies == {"ready", "running", "failed", "error", "unexpected"}

\* A poll loop that takes a failed job for a running one.
PollIgnoringFailed(reply) ==
    CASE reply = "ready" ->
            /\ pc' = "download"
            /\ attempt' = 1
            /\ consecutive_failures' = 0
            /\ UNCHANGED << outbox, outcome >>
      [] reply \in {"running", "failed"} ->
            /\ consecutive_failures' = 0
            /\ attempt' = 0
            /\ UNCHANGED << pc, outbox, outcome >>
      [] reply = "error" ->
            /\ consecutive_failures' = consecutive_failures + 1
            /\ IF consecutive_failures' >= max_consecutive_failures
               THEN ScrapeFailed("poll_errors")
               ELSE UNCHANGED << pc, outbox, outcome >>
            /\ attempt' = 0
      [] OTHER ->
            /\ attempt' = 0
            /\ ScrapeFailed("poll_raised")
            /\ UNCHANGED consecutive_failures

\* A poll loop that never resets the count of failures.
PollWithoutReset(reply) ==
    CASE reply = "ready" ->
            /\ pc' = "download"
            /\ attempt' = 1
            /\ UNCHANGED << consecutive_failures, outbox, outcome >>
      [] reply = "running" ->
            /\ attempt' = 0
            /\ UNCHANGED << consecutive_failures, pc, outbox, outcome >>
      [] reply = "failed" ->
            /\ ScrapeFailed("job_failed")
            /\ attempt' = 0
            /\ UNCHANGED consecutive_failures
      [] reply = "error" ->
            /\ consecutive_failures' = consecutive_failures + 1
            /\ IF consecutive_failures' >= max_consecutive_failures
               THEN ScrapeFailed("poll_errors")
               ELSE UNCHANGED << pc, outbox, outcome >>
            /\ attempt' = 0
      [] OTHER ->
            /\ attempt' = 0
            /\ ScrapeFailed("poll_raised")
            /\ UNCHANGED consecutive_failures

\* The body of the loop of check_progress_with_retry after the sleep, and
\* line 260 of scrape_g2_reviews when the function returns.  An exception
\* that is no RequestException leaves the function and is caught at line 266.
\* The trigger's attempt is gone; the download starts with its own.
PollQuery(reply) ==
    CASE reply = "ready" ->
            /\ pc' = "download"
            /\ attempt' = 1
            /\ consecutive_failures' = 0
            /\ UNCHANGED << outbox, outcome >>
      [] reply = "running" ->
            /\ consecutive_failures' = 0
            /\ attempt' = 0
            /\ UNCHANGED << pc, outbox, outcome >>
      [] reply = "failed" ->
            /\ consecutive_failures' = 0
            /\ ScrapeFailed("job_failed")
            /\ attempt' = 0
      [] reply = "error" ->
            /\ consecutive_failures' = consecutive_failures + 1
            /\ IF consecutive_failures' >= max_consecutive_failures
               THEN ScrapeFailed("poll_errors")
               ELSE UNCHANGED << pc, outbox, outcome >>
            /\ attempt' = 0
      [] OTHER ->
            /\ attempt' = 0
            /\ ScrapeFailed("poll_raised")
            /\ UNCHANGED consecutive_failures

\* A poll loop that never adds the sleep to elapsed.
PollWithoutClock ==
    /\ pc = "poll"
    /\ elapsed < max_wait
    /\ UNCHANGED elapsed
    /\ \E reply \in PollReplies :
        /\ last_reply' = reply
        /\ transient_errors' =
               IF reply = "error" /\ transient_errors < max_consecutive_failures
               THEN transient_errors + 1
               ELSE transient_errors
        /\ PollQuery(reply)
    /\ UNCHANGED << now, catalogue, file, env, locals, stack, fetched, prev, wrote,
                    ingested, runs >>

\* One pass of the loop of check_progress_with_retry.
Poll ==
    /\ pc = "poll"
    /\ elapsed < max_wait
    /\ elapsed' = elapsed + check_interval
    /\ \E reply \in PollReplies :
        /\ last_reply' = reply
        /\ transient_errors' =
               IF reply = "error" /\ transient_errors < max_consecutive_failures
               THEN transient_errors + 1
               ELSE transient_errors
        /\ PollQuery(reply)
    /\ UNCHANGED << now, catalogue, file, env, locals, stack, fetched, prev, wrote,
                    ingested, runs >>

\* check_progress_with_retry, lines 181-182: the wait budget is used up.
PollTimeout ==
    /\ pc = "poll"
    /\ elapsed >= max_wait
    /\ ScrapeFailed("poll_timeout")
    /\ UNCHANGED << now, catalogue, file, env, locals, collected, prev, wrote,
                    ingested, runs >>

\* The replies to the download request: a JSON document (a non-empty list,
\* a non-empty value that is no list, or an empty value), a timeout, another
\* RequestException, and an exception of another class.
DownloadReplies ==
    { JsonList(l) : l \in SeqsUpTo(catalogue, MaxFetch) }
    \cup { [kind |-> k, list |-> << >>] :
             k \in {"dict", "empty", "timeout", "error", "unexpected"} }

\* The exception handler of main, lines 540-548.
Raise ==
    /\ outbox' = Append(outbox, ErrorMsg(<< >>))
    /\ pc' = "done"
    /\ outcome' = "crashed"

\* load_last_review_id() raises when json.load rejects the text of the file.
LoadRaises == file.exists /\ ~file.complete

\* One pass of the loop of download_data_with_retry; when it returns data,
\* main, lines 395-412: reject a payload that is no list with an error
\* notification, else load the state.  The locals of the poll loop are
\* gone.
Download ==
    /\ pc = "download"
    /\ \E reply \in DownloadReplies :
        /\ last_reply' = reply.kind
        /\ transient_errors' = 0
        /\ elapsed' = 0
        /\ CASE reply.kind = "list" ->
                  /\ reviews_data' = reply
                  /\ attempt' = 0
                  /\ IF LoadRaises
                     THEN Raise /\ UNCHANGED << last_stored_id, seen_ids >>
                     ELSE /\ last_stored_id' = file.last_review_id
                          /\ seen_ids' = file.seen_review_ids
                          /\ pc' = "filter"
                          /\ UNCHANGED << outbox, outcome >>
             [] reply.kind = "dict" ->
                  /\ reviews_data' = reply
                  /\ outbox' = Append(outbox, ErrorMsg(<< >>))
                  /\ pc' = "done"
                  /\ outcome' = "invalid_format"
                  /\ UNCHANGED << attempt, last_stored_id, seen_ids >>
             [] reply.kind = "empty" ->
                  /\ ScrapeFailed("empty_payload")
                  /\ UNCHANGED << reviews_data, attempt, last_stored_id, seen_ids >>
             [] reply.kind \in {"timeout", "error"} ->
                  /\ IF attempt < max_retries
                     THEN /\ attempt' = attempt + 1
                          /\ UNCHANGED << pc, outbox, outcome >>
                     ELSE ScrapeFailed("download_failed") /\ UNCHANGED attempt
                  /\ UNCHANGED << reviews_data, last_stored_id, seen_ids >>
             [] OTHER ->
                  /\ ScrapeFailed("download_failed")
                  /\ UNCHANGED << reviews_data, attempt, last_stored_id, seen_ids >>
    /\ UNCHANGED << now, catalogue, file, env, new_reviews, idx,
                    successful_notifications, failed_reviews, newly_seen_ids,
                    consecutive_failures, stack, fetched, prev, wrote, ingested, runs >>

\* main, lines 414-452 and the branch at 454 and the sort at 477.
Filter ==
    /\ pc = "filter"
    /\ LET found == SelectSeq(reviews_data.list, LAMBDA r : IsNew(r, seen_ids))
       IN  IF Len(found) = 0
           THEN /\ new_reviews' = found
                /\ pc' = "health"
                /\ UNCHANGED << outbox, outcome, idx >>
           ELSE IF SortRaises(found)
           THEN \* TypeError reaches the handler at lines 540-548
                /\ new_reviews' = found
                /\ Raise
                /\ UNCHANGED idx
           ELSE /\ new_reviews' = SortReviews(found)
                /\ idx' = 1
                /\ pc' = "emit"
                /\ UNCHANGED << outbox, outcome >>
    /\ UNCHANGED << now, catalogue, file, env, reviews_data, last_stored_id, seen_ids,
                    successful_notifications, failed_reviews, newly_seen_ids,
                    collected, prev, wrote, ingested, runs >>

\* A health check that waits for more than seven full days.
HealthDueStrict ==
    /\ file.exists
    /\ file.complete
    /\ now - file.last_notification_sent > HealthDays * MinutesPerDay

\* send_health_check(): one request when the file records a notification at
\* least seven days old.
HealthDue ==
    /\ file.exists
    /\ file.complete
    /\ now - file.last_notification_sent >= HealthDays * MinutesPerDay

\* main, line 457.
HealthCheck ==
    /\ pc = "health"
    /\ outbox' = IF HealthDue
                 THEN Append(outbox, Msg("health", NotADict, "unobserved", << >>))
                 ELSE outbox
    /\ pc' = "commit_no_new"
    /\ UNCHANGED << now, catalogue, file, env, locals, collected, prev, wrote, outcome,
                    ingested, runs >>

\* The commit of both branches: lines 461-466 and 525-531.  Nothing is saved
\* when no element carries a review_id or when max() raises.
CommitState ==
    LET valid_ids == ValidIds(reviews_data.list)
    IN  IF valid_ids = {} \/ MaxRaises(valid_ids)
        THEN UNCHANGED << file, wrote, seen_ids, ingested >>
        ELSE /\ seen_ids' = seen_ids \cup valid_ids
             /\ save_last_review_id(SetMax(valid_ids), seen_ids')
             /\ ingested' = ingested \cup { x \in valid_ids : IsNumber(x) }

\* main, lines 459-474.
CommitNoNew ==
    /\ pc = "commit_no_new"
    /\ CommitState
    /\ pc' = "done"
    /\ outcome' = "no_new"
    /\ UNCHANGED << now, catalogue, env, reviews_data, last_stored_id, new_reviews, idx,
                    successful_notifications, failed_reviews, newly_seen_ids,
                    collected, outbox, prev, runs >>

\* A notification loop that saves the state after every notification.
EmitOneSaving ==
    /\ pc = "emit"
    /\ idx <= Len(new_reviews)
    /\ LET review == new_reviews[idx]
       IN  /\ outbox' = Append(outbox, Msg("review", review, "delivered", << >>))
           /\ successful_notifications' = successful_notifications + 1
           /\ newly_seen_ids' = Append(newly_seen_ids, review.review_id)
           /\ seen_ids' = seen_ids \cup {review.review_id}
           /\ save_last_review_id(review.review_id, seen_ids')
    /\ idx' = idx + 1
    /\ UNCHANGED << now, catalogue, env, pc, reviews_data, last_stored_id,
                    new_reviews, failed_reviews, collected, prev, outcome,
                    ingested, runs >>

\* main, lines 486-514: one iteration of the notification loop.  A review
\* that lacks a required field is recorded as failed without a request.
\* send_slack_notification returns True when one of its attempts is
\* answered, False when all of them fail.
EmitOne ==
    /\ pc = "emit"
    /\ idx <= Len(new_reviews)
    /\ LET review == new_reviews[idx]
       IN  IF required_fields \ review.keys # {}
           THEN /\ failed_reviews' = Append(failed_reviews, review.review_id)
                /\ UNCHANGED << successful_notifications, newly_seen_ids, outbox >>
           ELSE \E delivered \in BOOLEAN :
                /\ outbox' = Append(outbox,
                       Msg("review", review,
                           IF delivered THEN "delivered" ELSE "failed", << >>))
                /\ IF delivered
                   THEN /\ successful_notifications' = successful_notifications + 1
                        /\ newly_seen_ids' = Append(newly_seen_ids, review.review_id)
                        /\ UNCHANGED failed_reviews
                   ELSE /\ failed_reviews' = Append(failed_reviews, review.review_id)
                        /\ UNCHANGED << successful_notifications, newly_seen_ids >>
    /\ idx' = idx + 1
    /\ UNCHANGED << now, catalogue, file, env, pc, reviews_data, last_stored_id, seen_ids,
                    new_reviews, collected, prev, wrote, outcome, ingested, runs >>

\* A summary that is sent whether or not a review failed.
SummaryAlways ==
    /\ pc = "emit"
    /\ idx > Len(new_reviews)
    /\ outbox' = Append(outbox, ErrorMsg(failed_reviews))
    /\ pc' = "commit"
    /\ UNCHANGED << now, catalogue, file, env, locals, collected, prev, wrote, outcome,
                    ingested, runs >>

\* main, lines 516-522: the summary of the failed reviews.
Summary ==
    /\ pc = "emit"
    /\ idx > Len(new_reviews)
    /\ outbox' = IF failed_reviews # << >>
                 THEN Append(outbox, ErrorMsg(failed_reviews))
                 ELSE outbox
    /\ pc' = "commit"
    /\ UNCHANGED << now, catalogue, file, env, locals, collected, prev, wrote, outcome,
                    ingested, runs >>

\* main, lines 524-538.
Commit ==
    /\ pc = "commit"
    /\ CommitState
    /\ pc' = "done"
    /\ outcome' = "emitted"
    /\ UNCHANGED << now, catalogue, env, reviews_data, last_stored_id, new_reviews, idx,
                    successful_notifications, failed_reviews, newly_seen_ids,
                    collected, outbox, prev, runs >>

Next ==
    \/ Invoke
    \/ ValidateConfig
    \/ CheckRateLimit
    \/ Trigger
    \/ Poll
    \/ PollTimeout
    \/ Download
    \/ Filter
    \/ HealthCheck
    \/ CommitNoNew
    \/ EmitOne
    \/ Summary
    \/ Commit

Spec == Init /\ [][Next]_vars

\* The steps of main(), without the scheduler's.
main ==
    \/ ValidateConfig
    \/ CheckRateLimit
    \/ Trigger
    \/ Poll
    \/ PollTimeout
    \/ Download
    \/ Filter
    \/ HealthCheck
    \/ CommitNoNew
    \/ EmitOne
    \/ Summary
    \/ Commit

\* save_last_review_id, lines 46-52, cut short: open(STATE_FILE, 'w') has
\* emptied the file and json.dump does not get to write the whole document,
\* because the process is stopped or because the write raises (OSError is
\* caught at lines 468 and 533, and the run ends).
SaveInterrupted ==
    /\ pc \in {"commit", "commit_no_new"}
    /\ LET valid_ids == ValidIds(reviews_data.list)
       IN  valid_ids # {} /\ ~MaxRaises(valid_ids)
    /\ file' = TruncatedFile
    /\ pc' = "done"
    /\ outcome' = "interrupted"
    /\ UNCHANGED << now, catalogue, env, locals, collected, outbox, prev, wrote,
                    ingested, runs >>

\* The runs of main() when a write of the state file can be cut short.
NextInterrupt == Next \/ SaveInterrupted

SpecInterrupt == Init /\ [][NextInterrupt]_vars

\* Two invocations of main() at once.  Each is a process of its own with
\* its own locals; they share the clock and the state file.  The later one
\* is followed from its start to its end while the earlier one stands at
\* one of two places, and the earlier one then goes on: in the first sleep
\* of its poll loop, or between loading the state and filtering.  Frame is
\* what the earlier process holds meanwhile.
Frame ==
    [pc |-> pc, env |-> env, reviews_data |-> reviews_data,
     last_stored_id |-> last_stored_id, seen_ids |-> seen_ids,
     new_reviews |-> new_reviews, idx |-> idx,
     successful_notifications |-> successful_notifications,
     failed_reviews |-> failed_reviews, newly_seen_ids |-> newly_seen_ids,
     attempt |-> attempt, elapsed |-> elapsed,
     consecutive_failures |-> consecutive_failures, last_reply |-> last_reply,
     transient_errors |-> transient_errors, fetched |-> fetched, outbox |-> outbox,
     prev |-> prev, wrote |-> wrote, outcome |-> outcome, started |-> now]

\* The scheduler starts main() again, less than the minimum interval after
\* the start of an invocation that has not ended.
InvokeOverlapping ==
    /\ \/ pc = "poll" /\ elapsed = 0
       \/ pc = "filter"
    /\ stack = << >>
    /\ runs < MaxRuns
    /\ stack' = << Frame >>
    /\ \E gap \in { g \in Gaps : g < MinInterval } : StartRun(gap)

\* The later invocation has ended; the earlier one wakes up.
Resume ==
    /\ pc = "done"
    /\ stack # << >>
    /\ LET f == stack[1]
       IN  /\ pc' = f.pc
           /\ env' = f.env
           /\ reviews_data' = f.reviews_data
           /\ last_stored_id' = f.last_stored_id
           /\ seen_ids' = f.seen_ids
           /\ new_reviews' = f.new_reviews
           /\ idx' = f.idx
           /\ successful_notifications' = f.successful_notifications
           /\ failed_reviews' = f.failed_reviews
           /\ newly_seen_ids' = f.newly_seen_ids
           /\ attempt' = f.attempt
           /\ elapsed' = f.elapsed
           /\ consecutive_failures' = f.consecutive_failures
           /\ last_reply' = f.last_reply
           /\ transient_errors' = f.transient_errors
           /\ fetched' = f.fetched
           /\ outbox' = f.outbox
           /\ prev' = f.prev
           /\ wrote' = f.wrote
           /\ outcome' = f.outcome
    /\ stack' = << >>
    /\ UNCHANGED << now, catalogue, file, ingested, runs >>

NextOverlap == Next \/ InvokeOverlapping \/ Resume

SpecOverlap == Init /\ [][NextOverlap]_vars

\* -------------------------------------------------- the legacy script
\* .github/workflows/check_reviews.py, the earlier version of the monitor:
\* one trigger request, a poll loop, one download request, and an e-mail
\* for the first review of the fetch when its identifier differs from the
\* stored one.  It uses the same state file, of which it writes two keys.
legacy_max_wait == 180
wait_interval == 10

\* What the legacy script neither reads nor writes.
legacy_unused ==
    << env, seen_ids, new_reviews, idx, successful_notifications, failed_reviews,
       newly_seen_ids, attempt, consecutive_failures, stack, transient_errors,
       ingested >>

\* The scheduler starts the legacy main().
LegacyInvoke ==
    /\ pc = "done"
    /\ runs < MaxRuns
    /\ \E gap \in (IF runs = 0 THEN {0} ELSE Gaps) : now' = now + gap
    /\ runs' = runs + 1
    /\ pc' = "legacy_trigger"
    /\ reviews_data' = NoData
    /\ last_stored_id' = 0
    /\ elapsed' = 0
    /\ last_reply' = "none"
    /\ fetched' = FALSE
    /\ outbox' = << >>
    /\ prev' = file
    /\ wrote' = FALSE
    /\ outcome' = "running"
    /\ UNCHANGED << catalogue, file, legacy_unused >>

\* scrape_g2_reviews, step 1: one request; a reply without snapshot_id
\* returns None, and every exception is caught at the end of the function,
\* which returns None; main then returns.
LegacyTrigger ==
    /\ pc = "legacy_trigger"
    /\ fetched' = TRUE
    /\ \E reply \in {"snapshot", "no_snapshot", "error"} :
        /\ last_reply' = reply
        /\ IF reply = "snapshot"
           THEN pc' = "legacy_poll" /\ UNCHANGED outcome
           ELSE /\ pc' = "done"
                /\ outcome' = IF reply = "no_snapshot" THEN "no_snapshot"
                                                       ELSE "trigger_failed"
    /\ UNCHANGED << now, catalogue, file, reviews_data, last_stored_id, elapsed,
                    outbox, prev, wrote, runs, legacy_unused >>

\* One pass of the poll loop: sleep, add the interval to elapsed, query.
\* ready breaks out of the loop, failed returns None, every other status and
\* every exception go back to the test of the loop, which ends the loop when
\* elapsed has reached max_wait.
LegacyPoll ==
    /\ pc = "legacy_poll"
    /\ elapsed < legacy_max_wait
    /\ elapsed' = elapsed + wait_interval
    /\ \E reply \in {"ready", "running", "failed", "unknown", "error"} :
        /\ last_reply' = reply
        /\ CASE reply = "ready" ->
                  pc' = "legacy_after_poll" /\ UNCHANGED outcome
             [] reply = "failed" ->
                  pc' = "done" /\ outcome' = "job_failed"
             [] OTHER ->
                  /\ pc' = IF elapsed' < legacy_max_wait THEN "legacy_poll"
                                                         ELSE "legacy_after_poll"
                  /\ UNCHANGED outcome
    /\ UNCHANGED << now, catalogue, file, reviews_data, last_stored_id, fetched,
                    outbox, prev, wrote, runs, legacy_unused >>

\* The test that follows the loop: elapsed >= max_wait reports a timeout
\* and returns None, whatever ended the loop.
LegacyAfterPoll ==
    /\ pc = "legacy_after_poll"
    /\ IF elapsed >= legacy_max_wait
       THEN pc' = "done" /\ outcome' = "poll_timeout"
       ELSE pc' = "legacy_download" /\ UNCHANGED outcome
    /\ UNCHANGED << now, catalogue, file, reviews_data, last_stored_id, elapsed,
                    last_reply, fetched, outbox, prev, wrote, runs, legacy_unused >>

\* scrape_g2_reviews, step 3: one request, no retry; a non-empty document is
\* returned as it is, an empty one and every exception return None.  The
\* local of the poll loop is gone.
LegacyDownload ==
    /\ pc = "legacy_download"
    /\ elapsed' = 0
    /\ \E reply \in DownloadReplies :
        /\ last_reply' = reply.kind
        /\ IF reply.kind \in {"list", "dict"}
           THEN /\ reviews_data' = reply
                /\ pc' = "legacy_main"
                /\ UNCHANGED outcome
           ELSE /\ pc' = "done"
                /\ outcome' = IF reply.kind = "empty" THEN "empty_payload"
                                                      ELSE "download_failed"
                /\ UNCHANGED reviews_data
    /\ UNCHANGED << now, catalogue, file, last_stored_id, fetched, outbox,
                    prev, wrote, runs, legacy_unused >>

\* The keys of the first review that the legacy main() reads before the
\* comparison.
legacy_printed == {"review_id", "title", "author", "stars", "date"}

\* save_last_review_id of the legacy script: last_review_id and
\* last_checked; the keys it does not write are shown empty.
LegacySavedFile(review_id) ==
    [exists |-> TRUE, complete |-> TRUE, last_review_id |-> review_id,
     seen_review_ids |-> {}, last_checked |-> now, last_notification_sent |-> 0]

\* The legacy main() after the scrape: the first element of the fetch is
\* compared with the stored identifier; when they differ an e-mail is sent
\* and the state is saved only if the e-mail went out.  main has no
\* exception handler: a document that is no list, an element that is no
\* dict or lacks a printed key, and a state file that does not parse end
\* the process.  send_email_notification returns False without sending
\* when review_url is missing.
LegacyMain ==
    /\ pc = "legacy_main"
    /\ pc' = "done"
    /\ IF \/ reviews_data.kind # "list"
          \/ ~reviews_data.list[1].dict
          \/ ~(legacy_printed \subseteq reviews_data.list[1].keys)
          \/ LoadRaises
       THEN /\ outcome' = "crashed"
            /\ UNCHANGED << file, wrote, outbox, last_stored_id >>
       ELSE LET latest_review == reviews_data.list[1]
            IN  /\ last_stored_id' = file.last_review_id
                /\ IF latest_review.review_id = last_stored_id'
                   THEN /\ outcome' = "no_new"
                        /\ UNCHANGED << file, wrote, outbox >>
                   ELSE IF "review_url" \notin latest_review.keys
                   THEN /\ outcome' = "email_failed"
                        /\ UNCHANGED << file, wrote, outbox >>
                   ELSE \E delivered \in BOOLEAN :
                        /\ outbox' = Append(outbox,
                               Msg("email", latest_review,
                                   IF delivered THEN "delivered" ELSE "failed",
                                   << >>))
                        /\ IF delivered
                           THEN /\ file' = LegacySavedFile(latest_review.review_id)
                                /\ wrote' = TRUE
                                /\ outcome' = "emitted"
                           ELSE /\ outcome' = "email_failed"
                                /\ UNCHANGED << file, wrote >>
    /\ UNCHANGED << now, catalogue, reviews_data, elapsed, last_reply, fetched,
                    prev, runs, legacy_unused >>

NextLegacy ==
    \/ LegacyInvoke
    \/ LegacyTrigger
    \/ LegacyPoll
    \/ LegacyAfterPoll
    \/ LegacyDownload
    \/ LegacyMain

SpecLegacy == Init /\ [][NextLegacy]_vars

\* ----------------------------------------------------------------- claims
\* The calls of send_slack_notification of the run, in order.
ReviewMsgs == SelectSeq(outbox, LAMBDA m : m.type = "review")

\* The recency window of the specification: the date is a calendar date
\* between now - recent_days and now + future_slack_days.
InWindow(date) ==
    /\ Parses(date)
    /\ now - RecentDays * MinutesPerDay <= date.day * MinutesPerDay
    /\ date.day * MinutesPerDay <= now + FutureDays * MinutesPerDay

\* C1: no run sends a review notification for a review_id that an earlier
\* run fetched and committed.
C1_NoRepeatAcrossRuns ==
    pc # "done" =>
        \A i \in 1..Len(ReviewMsgs) : ReviewMsgs[i].review.review_id \notin ingested

\* C2: within a run, a review whose review_id is in the seen_ids loaded
\* from the state file is never passed to the notifier.
C2_SeenNeverNotified ==
    \A i \in 1..Len(ReviewMsgs) :
        ReviewMsgs[i].review.review_id \notin prev.seen_review_ids

\* C2 happens: a run fetched a recent review whose identifier was in the
\* loaded seen list, and notified another review.
C2_Witness ==
    /\ pc = "done"
    /\ outcome = "emitted"
    /\ Len(ReviewMsgs) > 0
    /\ \E i \in 1..Len(reviews_data.list) :
        /\ InWindow(reviews_data.list[i].date)
        /\ reviews_data.list[i].review_id \in prev.seen_review_ids

\* The fetch of a run that started without a state file: every element is a
\* well-formed review of its own, dated within the recency window, and every
\* notification of the run was delivered.
C3_Case ==
    /\ pc = "done"
    /\ outcome = "emitted"
    /\ ~prev.exists
    /\ \A i \in 1..Len(reviews_data.list) :
        /\ reviews_data.list[i].dict
        /\ reviews_data.list[i].keys = AllKeys
        /\ IsNumber(reviews_data.list[i].review_id)
        /\ InWindow(reviews_data.list[i].date)
    /\ \A i, j \in 1..Len(reviews_data.list) :
        i # j => reviews_data.list[i].review_id # reviews_data.list[j].review_id
    /\ \A i \in 1..Len(ReviewMsgs) : ReviewMsgs[i].result = "delivered"

\* Each fetched review was notified exactly once, older dates first.
C3_EmittedOnceInOrder ==
    /\ Len(ReviewMsgs) = Len(reviews_data.list)
    /\ \A i \in 1..Len(reviews_data.list) :
        Cardinality({ j \in 1..Len(ReviewMsgs) :
                        ReviewMsgs[j].review = reviews_data.list[i] }) = 1
    /\ \A j, k \in 1..Len(ReviewMsgs) :
        j < k => ReviewMsgs[j].review.date.day <= ReviewMsgs[k].review.date.day

\* C3 as stated: on a first run over N recent reviews whose notifications
\* succeed, each is emitted once in chronological order and the persisted
\* seen_ids holds all N identifiers, for every N.
C3_FirstRunKeepsAllIds ==
    C3_Case =>
        /\ C3_EmittedOnceInOrder
        /\ ValidIds(reviews_data.list) \subseteq file.seen_review_ids

\* C3 amended: each of the N reviews is emitted once in chronological order;
\* the persisted seen_ids holds all N identifiers when N is at most the cap,
\* and otherwise holds cap-many of them.
C3_FirstRunKeepsIdsUpToCap ==
    C3_Case =>
        /\ C3_EmittedOnceInOrder
        /\ IF Cardinality(ValidIds(reviews_data.list)) <= SeenCap
           THEN ValidIds(reviews_data.list) \subseteq file.seen_review_ids
           ELSE /\ file.seen_review_ids \subseteq ValidIds(reviews_data.list)
                /\ Cardinality(file.seen_review_ids) = SeenCap

\* C3 happens: a first run over two or more recent reviews that were
\* downloaded newest first.
C3_Witness ==
    /\ C3_Case
    /\ Len(reviews_data.list) >= 2
    /\ reviews_data.list[1].date.day > reviews_data.list[2].date.day

\* C4: the notify calls of a run are in ascending (date, review_id) order,
\* whatever the order of the download.
C4_EmittedAscending ==
    \A i, j \in 1..Len(ReviewMsgs) :
        i < j =>
            \/ DateLess(ReviewMsgs[i].review.date, ReviewMsgs[j].review.date)
            \/ /\ ReviewMsgs[i].review.date = ReviewMsgs[j].review.date
               /\ ReviewMsgs[i].review.review_id <= ReviewMsgs[j].review.review_id

\* C4 happens: two reviews were notified in the order opposite to the one
\* they were downloaded in.
C4_Witness ==
    /\ pc = "done"
    /\ \E i, j \in 1..Len(reviews_data.list) : \E a, b \in 1..Len(ReviewMsgs) :
        /\ i < j
        /\ a < b
        /\ ReviewMsgs[a].review = reviews_data.list[j]
        /\ ReviewMsgs[b].review = reviews_data.list[i]
        /\ reviews_data.list[i] # reviews_data.list[j]

C7_SeenWithinCap == Cardinality(file.seen_review_ids) <= SeenCap

\* C7 happens: a run merged more identifiers than the cap and wrote the file.
C7_Witness ==
    /\ pc = "done"
    /\ wrote
    /\ Cardinality(seen_ids) > SeenCap

\* C8: after a commit, the persisted last_review_id is the maximum
\* identifier over all the fetches ingested so far.
C8_LastIdIsMaxIngested ==
    (pc = "done" /\ wrote /\ IsNumber(file.last_review_id))
        => /\ file.last_review_id \in ingested
           /\ \A x \in ingested : x <= file.last_review_id

\* C8 amended: after a commit, the persisted last_review_id is the maximum
\* identifier of the fetch of the run that made the commit.
C8_LastIdIsMaxOfFetch ==
    (pc = "done" /\ wrote)
        => /\ file.last_review_id \in ValidIds(reviews_data.list)
           /\ \A x \in ValidIds(reviews_data.list) : x <= file.last_review_id

\* C8 happens: a commit lowered a persisted last_review_id.
C8_Witness ==
    /\ pc = "done"
    /\ wrote
    /\ prev.exists
    /\ IsNumber(file.last_review_id)
    /\ file.last_review_id < prev.last_review_id

\* C9: a run changes the persisted last_notification_sent only if it
\* delivered at least one review notification.
C9_NotifTimeOnlyOnDelivery ==
    (pc = "done" /\ prev.exists
        /\ file.last_notification_sent # prev.last_notification_sent)
        => successful_notifications > 0

\* C10: a run that completed the collect and filter stages has written a new
\* last_checked into the state file when it ends.
C10_CompletedRunWritesLastChecked ==
    (pc = "done" /\ outcome \in {"no_new", "emitted"})
        => (wrote /\ file.last_checked = now)

\* C11: when the state file records a last_checked less than the minimum
\* interval before now, the run sends no trigger request and no notification
\* and leaves the file as it was; otherwise (an older last_checked, or no
\* state file) the run goes on to the collection.
C11_RateLimitGuard ==
    (outcome \notin {"none", "config_error"} /\ pc \notin {"validate", "rate_limit"})
        => IF prev.exists /\ now - prev.last_checked < MinInterval
           THEN /\ outcome = "skipped"
                /\ ~fetched
                /\ outbox = << >>
                /\ file = prev
           ELSE /\ outcome # "skipped"
                /\ (pc = "trigger" \/ fetched)

\* C11 happens: a run that started ten minutes after the recorded
\* last_checked was skipped.
C11_Witness ==
    /\ pc = "done"
    /\ outcome = "skipped"
    /\ prev.exists
    /\ now - prev.last_checked = 10

\* C14: a run whose collection failed terminally has sent one error
\* notification and nothing else, and the state file is as it was when the
\* run started.
C14_ScrapeFailureReported ==
    (pc = "done" /\ outcome \in ScrapeFailures)
        => /\ Len(outbox) = 1
           /\ outbox[1].type = "error"
           /\ ~wrote
           /\ file = prev

\* C14 happens: with a state file in place, the third status query in a row
\* raised and the run ended.
C14_Witness ==
    /\ pc = "done"
    /\ outcome = "poll_errors"
    /\ prev.exists

\* The part of C15 that does not depend on how the trigger gives up: no
\* more than max_retries requests are made, and a job result on any attempt
\* takes the collection to the poll phase.
C15_AttemptsBoundedAndSuccessProceeds ==
    /\ pc = "trigger" => attempt \in 1..max_retries
    /\ outcome = "trigger_failed" => attempt \in 1..max_retries
    /\ last_reply = "snapshot" => (pc = "poll" /\ elapsed = 0 /\ attempt \in 1..max_retries)

\* C15 as stated: ..., and the trigger phase returns the no-data signal only
\* when all max_retries attempts have failed.
C15_NoDataOnlyAfterAllAttempts ==
    /\ C15_AttemptsBoundedAndSuccessProceeds
    /\ outcome = "trigger_failed" => attempt = max_retries

\* C15 amended: ..., and the trigger phase returns the no-data signal only
\* when all max_retries attempts have failed, or at once when a request
\* raised an exception that is neither a timeout nor a RequestException.
C15_NoDataAfterAllAttemptsOrUnexpected ==
    /\ C15_AttemptsBoundedAndSuccessProceeds
    /\ outcome = "trigger_failed"
         => \/ attempt = max_retries /\ last_reply \in {"timeout", "error"}
            \/ last_reply = "unexpected"

\* C15 happens: the trigger succeeded on its last attempt.
C15_Witness ==
    /\ pc = "poll"
    /\ elapsed = 0
    /\ last_reply = "snapshot"
    /\ attempt = max_retries

\* C16: a status of ready ends the poll phase at the query that returned it
\* and the download follows; a status of running keeps the loop going while
\* the wait budget lasts, one query per pass; a status of failed ends the
\* collection at once, with no further request.
C16_PollReadyRunningFailed ==
    /\ last_reply = "ready"
         => /\ pc = "download"
            /\ attempt = 1
            /\ elapsed \in { k * check_interval : k \in 1..MaxPolls }
    /\ last_reply = "running"
         => \/ pc = "poll"
            \/ pc = "done" /\ outcome = "poll_timeout" /\ elapsed >= max_wait
    /\ last_reply = "failed"
         => /\ pc = "done"
            /\ outcome = "job_failed"
            /\ reviews_data = NoData

\* C16 happens: the status was running for MaxPolls - 1 queries and ready at
\* the next one.
C16_Witness ==
    /\ pc = "download"
    /\ last_reply = "ready"
    /\ transient_errors = 0
    /\ elapsed = MaxPolls * check_interval

\* C17: the poll phase gives up on transient errors only at the third in a
\* row; a query that is answered sets the count of consecutive failures
\* back to zero.
C17_ThreeConsecutiveErrors ==
    /\ outcome = "poll_errors"
         => (consecutive_failures = max_consecutive_failures /\ last_reply = "error")
    /\ (pc = "poll" /\ last_reply = "error")
         => consecutive_failures \in 1..(max_consecutive_failures - 1)
    /\ (pc \in {"poll", "done"} /\ last_reply \in {"running", "failed"})
         => consecutive_failures = 0
    /\ consecutive_failures <= transient_errors

\* C17 happens: the loop is still polling after three transient errors that
\* did not come in a row.
C17_Witness ==
    /\ pc = "poll"
    /\ transient_errors >= max_consecutive_failures
    /\ consecutive_failures < max_consecutive_failures

\* The requests of the run that carried an error message.
ErrorMsgs == SelectSeq(outbox, LAMBDA m : m.type = "error")

\* C19: when a run that emitted reviews ends, one summary error notification
\* has been sent if some review failed (its notification failed or it lacks
\* an emission field), it lists the failed identifiers and it is the last
\* request of the run; if no review failed, no error notification was sent.
C19_OneSummaryIffFailed ==
    (pc \in {"commit", "done"} /\ outcome \in {"running", "emitted"} /\ new_reviews # << >>)
        => LET incomplete == { i \in 1..Len(new_reviews) :
                                 required_fields \ new_reviews[i].keys # {} }
               refused == { j \in 1..Len(ReviewMsgs) : ReviewMsgs[j].result = "failed" }
           IN  IF incomplete = {} /\ refused = {}
               THEN ErrorMsgs = << >>
               ELSE /\ Len(ErrorMsgs) = 1
                    /\ outbox[Len(outbox)].type = "error"
                    /\ Len(ErrorMsgs[1].ids) = Cardinality(incomplete) + Cardinality(refused)
                    /\ { ErrorMsgs[1].ids[k] : k \in 1..Len(ErrorMsgs[1].ids) }
                         = { new_reviews[i].review_id : i \in incomplete }
                           \cup { ReviewMsgs[j].review.review_id : j \in refused }

\* C19 happens: a run ended in which one review lacked an emission field
\* and the notification of another failed.
C19_Witness ==
    /\ pc = "done"
    /\ outcome = "emitted"
    /\ \E i \in 1..Len(new_reviews) : required_fields \ new_reviews[i].keys # {}
    /\ \E j \in 1..Len(ReviewMsgs) : ReviewMsgs[j].result = "failed"

\* C12: an invocation that starts while another one is in progress, less
\* than the minimum interval after that one started, is skipped by the
\* guard: it sends no trigger request and no notification and does not
\* write the state file.
C12_OverlappingRunSkipped ==
    (stack # << >> /\ now - stack[1].started < MinInterval)
        => /\ ~fetched
           /\ outbox = << >>
           /\ file = prev

\* C13: at every point of every run, also of a run that is stopped or
\* raises while it writes the state file, the file holds either the complete
\* state it held when the run started or the complete new state.
C13_StateFileOldOrNew ==
    /\ file.exists => file.complete
    /\ file # prev => (wrote /\ file.last_checked = now)

\* C18: in a run where the notification of a review failed, every new
\* review that carries the emission fields has been offered to the notifier,
\* in the order of new_reviews, and the run has committed its state.
C18_FailureDoesNotAbort ==
    (pc = "done" /\ \E j \in 1..Len(ReviewMsgs) : ReviewMsgs[j].result = "failed")
        => /\ outcome = "emitted"
           /\ LET offered == SelectSeq(new_reviews, LAMBDA r : required_fields \subseteq r.keys)
              IN  /\ Len(ReviewMsgs) = Len(offered)
                  /\ \A j \in 1..Len(offered) : ReviewMsgs[j].review = offered[j]
           /\ wrote
           /\ file.last_checked = now

\* The records the filter discards for their shape: not a dict, no
\* review_id, no date, or a review_id that is no number.
Malformed(r) ==
    \/ ~r.dict
    \/ "review_id" \notin r.keys
    \/ "date" \notin r.keys
    \/ ~IsNumber(r.review_id)

\* C20: when a fetch holds a malformed record next to well-formed ones, the
\* malformed record is never emitted, the run completes, and the identifiers
\* of the well-formed records are in the state the run has committed.
C20_MalformedSkippedIndividually ==
    LET l == reviews_data.list
        good == { i \in 1..Len(l) : ~Malformed(l[i]) }
    IN  (/\ pc = "done"
         /\ outcome \in {"no_new", "emitted"}
         /\ good # {}
         /\ \E i \in 1..Len(l) : Malformed(l[i]))
            => /\ \A j \in 1..Len(ReviewMsgs) : ~Malformed(ReviewMsgs[j].review)
               /\ wrote
               /\ Cardinality(seen_ids) <= SeenCap
                    => { l[i].review_id : i \in good } \subseteq file.seen_review_ids

\* The 'system alive' requests of the run.
HealthMsgs == SelectSeq(outbox, LAMBDA m : m.type = "health")

\* The state file the run started with records a notification at least
\* seven days old.
SevenDaysSilent ==
    /\ prev.exists
    /\ prev.complete
    /\ now - prev.last_notification_sent >= HealthDays * MinutesPerDay

\* C21 as stated: a run that passed the collection and ran to its end has
\* sent exactly one 'system alive' notification if the last notification
\* on record is at least seven days old, whether or not it found new
\* reviews, and none if it is younger.
C21_HealthCheckInEveryRun ==
    (pc = "done" /\ outcome \in {"no_new", "emitted"})
        => Len(HealthMsgs) = (IF SevenDaysSilent THEN 1 ELSE 0)

\* C21 amended: the 'system alive' notification is sent once, and only by
\* a run that found no new review and started with a state file whose
\* last_notification_sent is at least seven days old; a run that found new
\* reviews, or one with no state file, sends none.
C21_HealthCheckOnlyWithoutNewReviews ==
    LET past_health == \/ pc = "commit_no_new"
                       \/ pc = "done" /\ outcome = "no_new"
    IN  Len(HealthMsgs) = (IF past_health /\ SevenDaysSilent THEN 1 ELSE 0)

\* A run seven days after the last commit finds nothing new and reports
\* that it is alive.
C21_Witness ==
    /\ pc = "done"
    /\ outcome = "no_new"
    /\ Len(HealthMsgs) = 1
    /\ reviews_data.list # << >>

\* C22: when one of the three required settings is absent the run ends at
\* the validation: no trigger, poll or download request and no
\* notification request has been made, and the state file is the one the
\* run started with.
C22_MissingSettingEndsRun ==
    (env # SecretNames /\ pc # "validate")
        => /\ pc = "done"
           /\ outcome = "config_error"
           /\ ~fetched
           /\ last_reply = "none"
           /\ outbox = << >>
           /\ ~wrote
           /\ file = prev

\* A run that lacks a setting has ended, with a state file of an earlier
\* run in place.
C22_Witness ==
    /\ env # SecretNames
    /\ pc = "done"
    /\ outcome = "config_error"
    /\ prev.exists

\* The positions that may follow each position of main: VALIDATE_CONFIG,
\* CHECK_RATE_LIMIT, COLLECT (trigger, poll, download), FILTER, then EMIT*
\* or HEALTH_CHECK, then COMMIT; a run may end at every stage but the
\* last two.
StageAfter ==
    [p \in {"done", "validate", "rate_limit", "trigger", "poll", "download",
            "filter", "health", "emit", "commit_no_new", "commit"} |->
        CASE p = "done"          -> {"done", "validate"}
          [] p = "validate"      -> {"rate_limit", "done"}
          [] p = "rate_limit"    -> {"trigger", "done"}
          [] p = "trigger"       -> {"trigger", "poll", "done"}
          [] p = "poll"          -> {"poll", "download", "done"}
          [] p = "download"      -> {"download", "filter", "done"}
          [] p = "filter"        -> {"health", "emit", "done"}
          [] p = "health"        -> {"commit_no_new"}
          [] p = "emit"          -> {"emit", "commit"}
          [] p = "commit_no_new" -> {"done"}
          [] p = "commit"        -> {"done"}]

\* What the order of the stages means for every state of a run.
C23_StageState ==
    /\ fetched => /\ env = SecretNames
                  /\ ~(prev.exists /\ prev.complete
                          /\ now - prev.last_checked < MinInterval)
                  /\ pc \notin {"validate", "rate_limit"}
    /\ ReviewMsgs # << >> => /\ pc \in {"emit", "commit", "done"}
                             /\ reviews_data.kind = "list"
                             /\ Len(new_reviews) > 0
    /\ HealthMsgs # << >> => pc \in {"commit_no_new", "done"}
    /\ pc = "commit" => idx > Len(new_reviews)
    /\ wrote => pc = "done"

\* What it means for every step.
C23_StageStep ==
    /\ pc' \in StageAfter[pc]
    /\ (wrote' /\ ~wrote) => pc \in {"commit", "commit_no_new"}
    /\ file' # file => (~wrote /\ wrote')
    /\ (wrote /\ wrote') => outbox' = outbox

\* C23: within a run the stages follow one another in the order
\* VALIDATE_CONFIG, CHECK_RATE_LIMIT, COLLECT, FILTER, EMIT* or
\* HEALTH_CHECK, COMMIT: no request to the provider before the validation
\* and the rate-limit check have passed, no review notification before the
\* fetch has been filtered, at most one write of the state file, and that
\* write after the last notification attempt or the health check.
C23_StagesInOrder == []C23_StageState /\ [][C23_StageStep]_vars

\* A later run has notified two reviews and then written the state file.
C23_Witness ==
    /\ pc = "done"
    /\ wrote
    /\ prev.exists
    /\ Len(ReviewMsgs) >= 2

\* The request counts of the three phases stay within their budgets, and
\* the poll loop reports a timeout only when the whole budget went by
\* without a ready status.
C24_RequestsBounded ==
    /\ pc \in {"trigger", "download"} => attempt \in 1..max_retries
    /\ pc = "poll" => /\ elapsed \in {k * check_interval : k \in 0..MaxPolls}
                      /\ max_wait = MaxPolls * check_interval
    /\ outcome = "poll_timeout" => /\ elapsed = max_wait
                                   /\ last_reply \in PollReplies \ {"ready"}

\* What is left of a run, as a natural number: the stages still ahead,
\* and within a loop the passes it may still make.
LoopBudget == MaxPolls + MaxFetch + max_retries

StagesAhead ==
    CASE pc = "validate"      -> 8
      [] pc = "rate_limit"    -> 7
      [] pc = "trigger"       -> 6
      [] pc = "poll"          -> 5
      [] pc = "download"      -> 4
      [] pc = "filter"        -> 3
      [] pc \in {"health", "emit"} -> 2
      [] pc \in {"commit_no_new", "commit"} -> 1
      [] OTHER                -> 0

PassesAhead ==
    CASE pc \in {"trigger", "download"} -> max_retries - attempt
      [] pc = "poll"  -> (max_wait - elapsed) \div check_interval
      [] pc = "emit"  -> Len(new_reviews) + 1 - idx
      [] OTHER        -> 0

Remaining == StagesAhead * LoopBudget + PassesAhead

\* C24: every collection terminates whatever the provider answers: at most
\* max_retries trigger requests, at most max_wait / check_interval status
\* queries with a failure when none reported ready, at most max_retries
\* download requests; and every run of main ends: a run that has not ended
\* can take a step (Filter has no condition but its position), and every
\* step of a run leaves strictly less of it.
C24_EveryRunEnds ==
    /\ []C24_RequestsBounded
    /\ [](PassesAhead \in 0..(LoopBudget - 1))
    /\ [](pc \notin {"done", "filter"} => ENABLED main)
    /\ [][pc # "done" => Remaining' < Remaining]_vars

\* The poll loop has used its whole budget on a job that kept running, and
\* the run has ended.
C24_Witness ==
    /\ pc = "done"
    /\ outcome = "poll_timeout"
    /\ elapsed = max_wait
    /\ last_reply = "running"

\* C25: when the notification of a new review fails in a run that commits,
\* the commit still writes the review's identifier to seen_review_ids; and
\* no run notifies a review whose identifier is in the seen_review_ids it
\* loaded, so the failed notification is not tried again by a later run.
C25_FailedNotificationNotRetried ==
    /\ (pc = "done" /\ wrote) =>
          \A i \in 1..Len(ReviewMsgs) :
              ReviewMsgs[i].result = "failed" =>
                  ReviewMsgs[i].review.review_id \in file.seen_review_ids
    /\ \A i \in 1..Len(ReviewMsgs) :
          ReviewMsgs[i].review.review_id \notin prev.seen_review_ids

\* C26: within a run no two requests for a review notification carry the
\* same review_id, also when the fetch holds several records with that
\* review_id.
C26_EachIdNotifiedOnce ==
    \A i, j \in 1..Len(ReviewMsgs) :
        i # j => ReviewMsgs[i].review.review_id # ReviewMsgs[j].review.review_id

\* C27: in the legacy script, a status query made within the wait budget
\* that returns ready, the one of the last polling cycle included, is
\* followed by the download request and not by the report of a timeout.
C27_LegacyReadyProceeds ==
    last_reply = "ready" => pc \in {"legacy_after_poll", "legacy_download"}

====
